---- MODULE Spec2Model ----
(***************************************************************************)
(* The streaming markdown renderer (src/render/stream.rs) and the REPL     *)
(* main loop (src/repl/mod.rs) of aichat.                                  *)
(*                                                                         *)
(* Spec      the renderer: the model client sends Text chunks and Done on  *)
(*           the reply channel, markdown_stream gathers and applies them   *)
(*           to a terminal, polls the keyboard and returns.                *)
(* SpecRepl  the REPL: Repl::run, Repl::handle and Repl::ask.              *)
(*                                                                         *)
(* A string is a sequence of one-character strings.  The character "L"     *)
(* stands for one unbroken run of LongRun columns (a very long line).      *)
(***************************************************************************)
EXTENDS Integers, Sequences, FiniteSets, TLC

VARIABLES
    \* ---- the reply channel and the model client that feeds it
    chan,          \* events sent and not yet received (UnboundedReceiver)
    nSent,         \* number of Text events sent so far
    doneSent,      \* Done has been sent
    txDropped,     \* the sender was dropped without sending Done
    sentText,      \* history: concatenation of all Text payloads sent
    \* ---- markdown_stream / markdown_stream_inner
    pc,            \* position of the renderer
    rawMode,       \* the terminal is in raw mode
    disableCalled, \* history: disable_raw_mode() has been called
    innerRet,      \* value returned by markdown_stream_inner
    ret,           \* value returned by markdown_stream
    columns,       \* let columns = terminal::size()?.0
    buffer,        \* let mut buffer
    buffer_rows,   \* let mut buffer_rows
    spinner_tx,    \* spinner_tx is Some(..)
    spin,          \* the spinner task: [pc, late]
    texts,         \* gather_events: let mut texts
    events,        \* the batch being iterated by the for loop
    overflowChecks,\* the build panics on integer overflow (debug profile)
    \* ---- AbortSignal
    ctrlc,
    ctrld,
    \* ---- the terminal
    term,          \* [col, row, top]: cursor column, absolute cursor row,
                   \* absolute row shown on the first line of the screen
    termCols,      \* width of the terminal
    \* ---- history of the renderer
    applied,       \* concatenation of the texts handed to chunk-apply
    committed,     \* text printed by print_block for the committed blocks
    imgStart,      \* absolute row where the image of buffer was printed from
    geom,          \* the row arithmetic of the last chunk-apply:
                   \* [fix, posRow, rows, eraseRow]
    lastApply,     \* "none", "ok": a chunk application has just succeeded
    lastKey,       \* the last outcome of the keyboard poll
    lastEndsNl,    \* the last Text sent ended with a newline
    gatherAborted, \* a gather was started while an abort flag was set
    enabledRaw,    \* enable_raw_mode() has succeeded
    exitBy,        \* how the loop was left: "done", "abort", "key", "error"
    \* ---- Repl::run, Repl::handle, Repl::ask
    rpc,           \* position of the REPL
    line,          \* the line read_line returned: [cmd, args, text]
    compressing,   \* the configuration's "compressing session" flag
    ctask,         \* the spawned compression task: [pc, lock, reads, writes]
    asked,         \* the steps the current ask has gone through
    coop,          \* the runtime is single-threaded: a spawned task runs only
                   \* while the main task is suspended in an await
    eagerWrap,     \* the terminal moves the cursor to the next row as soon
                   \* as a line is full (it reports column 0 of that row)
    runRet,        \* value returned by Repl::run
    replMode,      \* the renderer runs under the REPL (SpecRepl)
    \* ---- history of the REPL
    nReads,        \* read_line calls begun
    nLines,        \* lines read_line has returned
    nResets,       \* abort.reset() calls
    exitCalls,     \* handle(".exit session") calls after the loop
    exitCmd,       \* handle has returned exit = true
    lastErr,       \* the last handle returned an error, which was rendered
    pressedC,      \* Ctrl-C has been pressed
    pressedD,      \* Ctrl-D has been pressed
    \* ---- the line functions and need_rows applied to one input
    fn             \* [pc, in, cols, line, valid, parsed, rows]

vars == <<chan, nSent, doneSent, txDropped, sentText, pc, rawMode, disableCalled, innerRet,
          ret, columns, buffer, buffer_rows, spinner_tx, spin, texts, events,
          overflowChecks, ctrlc, ctrld, term, termCols, applied, committed,
          imgStart, geom, lastApply, lastKey, lastEndsNl, gatherAborted, enabledRaw,
          exitBy, rpc, line, compressing, asked, runRet, replMode, nReads, nLines,
          nResets, exitCalls, exitCmd, lastErr, pressedC, pressedD, fn,
          ctask, coop>>

----------------------------------------------------------------------------
(* Bounds of the model *)

MaxChunks == 2       \* Text events per reply
MaxCols   == 3       \* terminal widths 2..MaxCols
TermRows  == 3       \* height of the terminal
MaxReads  == 3       \* read_line calls of one REPL run
MaxLineLen  == 5     \* length of the lines given to the line functions
MaxInnerLen == 3     \* length of the text between two fences
MaxWidthLen == 2     \* length of the strings given to need_rows
ReplMaxChunks == 1   \* Text events per reply in the REPL specification

(* Program constants *)

U16      == 65536    \* columns, rows and widths are u16
TabWidth == 4        \* text.replace('\t', "    ")

NL   == "\n"
TAB  == "\t"
LongRun == U16 - 1   \* display width of the character "L"

Max(a, b) == IF a >= b THEN a ELSE b

----------------------------------------------------------------------------
(* Strings *)

RECURSIVE Contains(_, _)
Contains(s, c) ==
    IF s = <<>> THEN FALSE
    ELSE IF Head(s) = c THEN TRUE ELSE Contains(Tail(s), c)

RECURSIVE LastIndexOf(_, _)
\* index of the last c in s, 0 when there is none
LastIndexOf(s, c) ==
    IF s = <<>> THEN 0
    ELSE IF s[Len(s)] = c THEN Len(s)
    ELSE LastIndexOf(SubSeq(s, 1, Len(s) - 1), c)

RECURSIVE IndexOf(_, _)
\* index of the first c in s, 0 when there is none
IndexOf(s, c) ==
    IF s = <<>> THEN 0
    ELSE IF Head(s) = c THEN 1
    ELSE LET i == IndexOf(Tail(s), c) IN IF i = 0 THEN 0 ELSE i + 1

RECURSIVE Lines(_)
\* text.split('\n'): the lines of s, at least one
Lines(s) ==
    LET i == IndexOf(s, NL) IN
    IF i = 0 THEN <<s>>
    ELSE <<SubSeq(s, 1, i - 1)>> \o Lines(SubSeq(s, i + 1, Len(s)))

RECURSIVE Join(_)
\* texts.join("")
Join(ss) == IF ss = <<>> THEN <<>> ELSE Head(ss) \o Join(Tail(ss))

RECURSIVE ReplaceTabs(_)
\* text.replace('\t', "    ")
ReplaceTabs(s) ==
    IF s = <<>> THEN <<>>
    ELSE (IF Head(s) = TAB THEN [i \in 1..TabWidth |-> " "] ELSE <<Head(s)>>)
         \o ReplaceTabs(Tail(s))

\* "z" stands for a character of display width 0
CharWidth(c) == IF c = "L" THEN LongRun ELSE IF c = "z" THEN 0 ELSE 1

RECURSIVE display_width(_)
\* textwrap::core::display_width on a string without control characters
display_width(s) ==
    IF s = <<>> THEN 0 ELSE CharWidth(Head(s)) + display_width(Tail(s))

----------------------------------------------------------------------------
(* LayoutMath *)

\* mutant: the split is made at the first newline (split_once for rsplit_once)
split_line_tail_first(text) ==
    LET i == IndexOf(text, NL) IN
    IF i = 0 THEN <<<<>>, text>>
    ELSE <<SubSeq(text, 1, i - 1), SubSeq(text, i + 1, Len(text))>>

split_line_tail(text) ==
    LET i == LastIndexOf(text, NL) IN
    IF i = 0 THEN <<<<>>, text>>
    ELSE <<SubSeq(text, 1, i - 1), SubSeq(text, i + 1, Len(text))>>

\* display_width(text).max(1) as u16: the cast truncates, it never panics
BufferWidth(text) == Max(display_width(text), 1) % U16

\* need_rows panics on a zero divisor, and on overflow of
\* buffer_width + columns when the build checks overflow
need_rows_panics(text, cols) ==
    IF cols = 0 THEN TRUE
    ELSE overflowChecks /\ BufferWidth(text) + cols > U16 - 1

\* mutant: the width is not raised to 1 (the .max(1) is missing)
need_rows_no_max(text, cols) ==
    (((((display_width(text) % U16) + cols) % U16) - 1) % U16) \div cols

\* (buffer_width + columns - 1) / columns in wrapping u16 arithmetic
need_rows(text, cols) ==
    ((((BufferWidth(text) + cols) % U16) - 1) % U16) \div cols

----------------------------------------------------------------------------
(* MarkdownRender: render_line styles one partial line, render styles a    *)
(* block of complete lines line by line.  Styling has no display width; a  *)
(* heading is followed by a rule on a line of its own.                     *)

render_line(ln) ==
    IF ln # <<>> /\ Head(ln) = "#" THEN ln \o <<NL, "-">> ELSE ln

RECURSIVE JoinLines(_)
JoinLines(ls) ==
    IF Len(ls) = 1 THEN render_line(ls[1])
    ELSE render_line(Head(ls)) \o <<NL>> \o JoinLines(Tail(ls))

render(text) == JoinLines(Lines(text))

----------------------------------------------------------------------------
(* The terminal: columns 0..termCols-1; col = termCols is the cursor       *)
(* waiting past the last column for the next character (deferred wrap).    *)
(* A terminal with eagerWrap moves the cursor to column 0 of the next row  *)
(* as soon as the last column is written.                                  *)
(* Rows are absolute: row - top is the row on the screen.                  *)

Scrolled(t) == [t EXCEPT !.top = Max(t.top, t.row - TermRows + 1)]

\* style::Print of w columns of text without newline
TermPrint(t, w) ==
    IF w = 0 THEN t
    ELSE LET total == t.col + w
             k == IF eagerWrap THEN total \div termCols
                  ELSE (total - 1) \div termCols
         IN Scrolled([t EXCEPT !.row = t.row + k, !.col = total - termCols * k])

\* style::Print("\n") in raw mode, then cursor::MoveLeft(n)
TermNewlineLeft(t, n) ==
    LET c == IF t.col >= termCols THEN termCols - 1 ELSE t.col
    IN Scrolled([t EXCEPT !.row = t.row + 1, !.col = Max(0, c - Max(n, 1))])

\* cursor::MoveTo(0, r)
TermMoveTo(t, r) ==
    [t EXCEPT !.col = 0, !.row = t.top + (IF r > TermRows - 1 THEN TermRows - 1 ELSE r)]

\* terminal::ScrollUp(n): the text moves up, the cursor stays on its screen row
TermScrollUp(t, n) == [t EXCEPT !.top = t.top + n, !.row = t.row + n]

\* cursor::position()
TermPosition(t) ==
    [col |-> IF t.col >= termCols THEN termCols - 1 ELSE t.col,
     row |-> t.row - t.top]

----------------------------------------------------------------------------
(* print_block: every line, a newline, move left; returns the line count *)

RECURSIVE PrintLines(_, _, _)
PrintLines(t, ls, cols) ==
    IF ls = <<>> THEN t
    ELSE PrintLines(TermNewlineLeft(TermPrint(t, display_width(Head(ls))), cols),
                    Tail(ls), cols)

RECURSIVE LinesText(_)
LinesText(ls) ==
    IF ls = <<>> THEN <<>> ELSE Head(ls) \o <<NL>> \o LinesText(Tail(ls))

print_block(t, text, cols) ==
    [term |-> PrintLines(t, Lines(text), cols),
     num  |-> Len(Lines(text)) % U16,
     out  |-> LinesText(Lines(text))]

----------------------------------------------------------------------------
(* The chunk-apply algorithm of markdown_stream_inner (one Text event):    *)
(* the new buffer and buffer_rows, the terminal after the writes, the text *)
(* print_block printed for the committed block, the row where the image of *)
(* buffer starts, and whether the row arithmetic panics.                   *)

\* col == 0 && row > 0 && display_width(&buffer) == columns as usize
IsPhantom(pos, buf) ==
    pos.col = 0 /\ pos.row > 0 /\ display_width(buf) = columns

\* mutant: the reported row is used as it is
phantom_row_unfixed(pos, buf) == pos.row

\* the row used by the geometry: if .. { row -= 1 }
phantom_row(pos, buf) == IF IsPhantom(pos, buf) THEN pos.row - 1 ELSE pos.row

ChunkApply(buf, rows, t, raw) ==
    LET text   == ReplaceTabs(raw)
        pos    == TermPosition(t)
        row    == phantom_row(pos, buf)
        erase  == IF row + 1 >= rows THEN row + 1 - rows ELSE 0
        t1     == IF row + 1 >= rows
                  THEN TermMoveTo(t, row + 1 - rows)
                  ELSE TermMoveTo(TermScrollUp(t, rows - row - 1), 0)
        hasNl  == Contains(text, NL)
        ht     == split_line_tail(buf \o text)
        blk    == print_block(t1, render(ht[1]), columns)
        t2     == IF hasNl THEN blk.term ELSE t1
        buf2   == IF hasNl THEN ht[2] ELSE buf \o text
        output == render_line(buf2)
        multi  == Contains(output, NL)
        ht2    == split_line_tail(output)
        blk2   == print_block(t2, ht2[1], columns)
        last   == IF multi THEN ht2[2] ELSE output
        t3     == TermPrint(IF multi THEN blk2.term ELSE t2, display_width(last))
        sum    == IF multi THEN blk2.num + need_rows(last, columns)
                  ELSE need_rows(last, columns)
    IN  [buffer      |-> buf2,
         buffer_rows |-> sum % U16,
         term        |-> t3,
         out         |-> IF hasNl THEN blk.out ELSE <<>>,
         imgStart    |-> t2.row,
         geom        |-> [fix |-> IsPhantom(pos, buf), posRow |-> pos.row,
                          rows |-> rows, eraseRow |-> erase],
         panic       |-> IF need_rows_panics(last, columns) THEN TRUE
                         ELSE overflowChecks /\ sum > U16 - 1]

----------------------------------------------------------------------------
(* The reply channel *)

TextEvent(s) == [done |-> FALSE, text |-> s]
DoneEvent    == [done |-> TRUE, text |-> <<>>]

Chunks == { <<"a">>, <<"a", "a">>, <<NL>>, <<"#", "a", "a">>, <<"a", NL, "a">>,
            <<TAB, "a", TAB>>, <<"L">> }
\* the replies of the REPL specification
ReplChunks == { <<"a">>, <<"L">> }

\* the receiver is alive while markdown_stream runs
RxAlive == pc \notin {"idle", "returned", "panicked"}

aborted == ctrlc \/ ctrld
aborted_ctrld == ctrld

\* no compression task
CtIdle == [pc |-> "none", lock |-> "none", reads |-> 0, writes |-> 0]

\* no ask has begun
AskNone == [empty |-> FALSE, checked |-> FALSE, sent |-> FALSE, sendOk |-> FALSE,
            saved |-> 0, spawned |-> FALSE, failed |-> FALSE]

\* no spinner task; no chunk applied yet
SpinIdle == [pc |-> "none", late |-> FALSE]
GeomNone == [fix |-> FALSE, posRow |-> 0, rows |-> 1, eraseRow |-> 0]

\* no line function is being applied
FnIdle == [pc |-> "idle", in |-> <<>>, cols |-> 1, line |-> <<>>,
           valid |-> "none", parsed |-> <<>>, rows |-> 0]

Line(cmd, args, text) == [cmd |-> cmd, args |-> args, text |-> text]
UserLine == Line("", <<>>, "hello")

Init ==
    /\ chan = <<>> /\ nSent = 0 /\ doneSent = FALSE /\ sentText = <<>>
    /\ pc = "enter" /\ rawMode = FALSE /\ disableCalled = FALSE
    /\ innerRet = "none" /\ ret = "none"
    /\ columns = 0 /\ buffer = <<>> /\ buffer_rows = 1 /\ spinner_tx = FALSE
    /\ texts = <<>> /\ events = <<>>
    /\ overflowChecks \in BOOLEAN
    /\ ctrlc = FALSE /\ ctrld = FALSE
    /\ termCols \in 2..MaxCols
    /\ \E r \in {0, TermRows - 1} : term = [col |-> 0, row |-> r, top |-> 0]
    /\ applied = <<>> /\ committed = <<>> /\ imgStart = 0
    /\ lastApply = "none" /\ lastKey = "none" /\ lastEndsNl = FALSE
    /\ gatherAborted = FALSE /\ enabledRaw = FALSE /\ exitBy = "none"
    \* the REPL waits in send_stream for the reply of a user turn
    /\ rpc = "send" /\ line = UserLine /\ compressing = FALSE
    /\ runRet = "none" /\ replMode = FALSE
    /\ nReads = 1 /\ nLines = 1 /\ nResets = 1 /\ exitCalls = 0
    /\ exitCmd = FALSE /\ lastErr = FALSE /\ pressedC = FALSE /\ pressedD = FALSE
    /\ fn = FnIdle /\ ctask = CtIdle /\ coop = FALSE
    /\ asked = AskNone
    /\ txDropped = FALSE /\ spin = SpinIdle /\ geom = GeomNone /\ eagerWrap = FALSE

rendererVars == <<pc, rawMode, disableCalled, innerRet, ret, columns, buffer,
                  buffer_rows, spinner_tx, spin, texts, events, term, applied,
                  committed, imgStart, geom, lastApply, lastKey, gatherAborted,
                  enabledRaw, exitBy>>
replVars   == <<rpc, line, compressing, asked, ctask, runRet, nReads, nLines, nResets,
                exitCalls, exitCmd, lastErr>>
envVars    == <<fn, coop, eagerWrap>>
staticVars == <<overflowChecks, termCols, replMode, replVars, envVars>>
pressVars  == <<pressedC, pressedD>>

\* the model client sends one Text event
SendText ==
    /\ RxAlive /\ ~doneSent /\ ~txDropped
    /\ nSent < (IF replMode THEN ReplMaxChunks ELSE MaxChunks)
    /\ \E c \in (IF replMode THEN ReplChunks ELSE Chunks) :
        /\ chan' = Append(chan, TextEvent(c))
        /\ sentText' = sentText \o c
        /\ lastEndsNl' = (c[Len(c)] = NL)
    /\ nSent' = nSent + 1
    /\ UNCHANGED <<doneSent, txDropped, rendererVars, staticVars, pressVars, ctrlc, ctrld>>

\* the model client ends the stream
SendDone ==
    /\ RxAlive /\ ~doneSent /\ ~txDropped
    /\ chan' = Append(chan, DoneEvent)
    /\ doneSent' = TRUE
    /\ UNCHANGED <<txDropped, nSent, sentText, lastEndsNl, rendererVars, staticVars, pressVars, ctrlc, ctrld>>

\* the cancellation path of the model client sets ctrlc on the shared signal
ExternalCtrlc ==
    /\ RxAlive /\ pc # "enter" /\ ~ctrlc
    /\ ctrlc' = TRUE
    /\ pressedC' = TRUE
    /\ UNCHANGED <<chan, nSent, doneSent, txDropped, sentText, lastEndsNl, rendererVars,
                   staticVars, pressedD, ctrld>>

----------------------------------------------------------------------------
(* markdown_stream and markdown_stream_inner *)

senderVars == <<nSent, doneSent, txDropped, sentText, lastEndsNl>>
histVars   == <<applied, committed, imgStart, geom, lastApply, lastKey, gatherAborted>>
exitVars   == <<enabledRaw, exitBy>>
localVars  == <<columns, buffer, buffer_rows, texts, events>>

\* mutant: a batch that ends the stream carries Done alone
BatchDoneOnly(ts, done) ==
    IF done THEN <<DoneEvent>>
    ELSE IF ts # <<>> THEN <<TextEvent(Join(ts))>> ELSE <<>>

\* the batch gather_events returns
Batch(ts, done) ==
    (IF ts # <<>> THEN <<TextEvent(Join(ts))>> ELSE <<>>)
    \o (IF done THEN <<DoneEvent>> ELSE <<>>)

\* markdown_stream: enable_raw_mode()?
EnableRaw ==
    /\ pc = "enter"
    /\ \E ok \in BOOLEAN :
        /\ IF ok THEN /\ rawMode' = TRUE /\ pc' = "setup" /\ ret' = ret
                 ELSE /\ rawMode' = rawMode /\ pc' = "returned" /\ ret' = "Err"
        /\ enabledRaw' = ok
    /\ UNCHANGED <<chan, senderVars, disableCalled, innerRet, localVars, spinner_tx, spin,
                   term, histVars, exitBy, staticVars, pressVars, ctrlc, ctrld>>

\* markdown_stream_inner up to the loop: the locals, terminal::size()?, the spinner
Setup ==
    /\ pc = "setup"
    /\ \E ok \in BOOLEAN :
        IF ok THEN /\ columns' = termCols /\ spinner_tx' = TRUE
                   /\ spin' = [SpinIdle EXCEPT !.pc = "run"]
                   /\ pc' = "check" /\ innerRet' = innerRet /\ exitBy' = exitBy
              ELSE /\ columns' = columns /\ spinner_tx' = spinner_tx
                   /\ spin' = spin
                   /\ pc' = "inner_ret" /\ innerRet' = "Err" /\ exitBy' = "error"
    /\ buffer' = <<>>
    /\ buffer_rows' = 1
    /\ UNCHANGED <<chan, senderVars, rawMode, disableCalled, ret, texts, events,
                   term, histVars, enabledRaw, staticVars, pressVars, ctrlc, ctrld>>

\* mutant: the cancellation check reads aborted_ctrld() for aborted()
CheckAbortCtrld ==
    /\ pc = "check"
    /\ IF aborted_ctrld
       THEN /\ pc' = "inner_ret" /\ innerRet' = "Ok" /\ exitBy' = "abort"
       ELSE /\ pc' = "gather" /\ innerRet' = innerRet /\ exitBy' = exitBy
    /\ texts' = <<>>
    /\ lastKey' = "none"
    /\ gatherAborted' = (gatherAborted \/ (aborted /\ pc' = "gather"))
    /\ UNCHANGED <<chan, senderVars, rawMode, disableCalled, ret, columns, buffer,
                   buffer_rows, events, spinner_tx, spin, term, applied, committed,
                   imgStart, geom, lastApply, enabledRaw, staticVars, pressVars, ctrlc, ctrld>>

\* top of the loop: if abort.aborted() { return Ok(()) }, else call gather_events
CheckAbort ==
    /\ pc = "check"
    /\ IF aborted
       THEN /\ pc' = "inner_ret" /\ innerRet' = "Ok" /\ exitBy' = "abort"
       ELSE /\ pc' = "gather" /\ innerRet' = innerRet /\ exitBy' = exitBy
    /\ texts' = <<>>
    /\ lastKey' = "none"
    /\ gatherAborted' = (gatherAborted \/ (aborted /\ pc' = "gather"))
    /\ UNCHANGED <<chan, senderVars, rawMode, disableCalled, ret, columns, buffer,
                   buffer_rows, events, spinner_tx, spin, term, applied, committed,
                   imgStart, geom, lastApply, enabledRaw, staticVars, pressVars, ctrlc, ctrld>>

\* gather_events: rx.recv() yields an event
GatherRecv ==
    /\ pc = "gather" /\ chan # <<>>
    /\ chan' = Tail(chan)
    /\ IF Head(chan).done
       THEN /\ texts' = <<>>
            /\ events' = Batch(texts, TRUE)
            /\ pc' = "batch"
       ELSE /\ texts' = Append(texts, Head(chan).text)
            /\ events' = events
            /\ pc' = pc
    /\ UNCHANGED <<senderVars, rawMode, disableCalled, innerRet, ret, columns, buffer,
                   buffer_rows, spinner_tx, spin, term, histVars, exitVars, staticVars,
                   pressVars, ctrlc, ctrld>>

\* gather_events: the 50 ms sleep wins the select
GatherTimeout ==
    /\ pc = "gather"
    /\ events' = Batch(texts, FALSE)
    /\ pc' = IF texts = <<>> THEN "poll" ELSE "batch"
    /\ texts' = <<>>
    /\ UNCHANGED <<chan, senderVars, rawMode, disableCalled, innerRet, ret, columns,
                   buffer, buffer_rows, spinner_tx, spin, term, histVars, exitVars,
                   staticVars, pressVars, ctrlc, ctrld>>

\* the for loop takes a Text event: spinner cancel, then chunk-apply
ApplyText ==
    /\ pc = "batch" /\ events # <<>> /\ ~Head(events).done
    /\ spinner_tx' = FALSE /\ spin' = spin
    /\ LET r == ChunkApply(buffer, buffer_rows, term, Head(events).text) IN
       \E outcome \in {"ok", "position", "flush"} :
         CASE outcome = "position" ->
                \* cursor::position()? fails
                /\ pc' = "inner_ret" /\ innerRet' = "Err" /\ exitBy' = "error"
                /\ UNCHANGED <<buffer, buffer_rows, term, events, applied,
                               committed, imgStart, geom, lastApply>>
           [] outcome = "flush" /\ ~r.panic ->
                \* a write or writer.flush()? fails
                /\ pc' = "inner_ret" /\ innerRet' = "Err" /\ exitBy' = "error"
                /\ buffer' = r.buffer /\ buffer_rows' = r.buffer_rows
                /\ applied' = applied \o Head(events).text
                /\ lastApply' = "failed"
                /\ UNCHANGED <<term, events, committed, imgStart, geom>>
           [] outcome = "ok" /\ ~r.panic ->
                /\ buffer' = r.buffer /\ buffer_rows' = r.buffer_rows
                /\ term' = r.term
                /\ applied' = applied \o Head(events).text
                /\ committed' = committed \o r.out
                /\ imgStart' = r.imgStart /\ geom' = r.geom
                /\ lastApply' = "ok"
                /\ events' = Tail(events)
                /\ pc' = IF Tail(events) = <<>> THEN "poll" ELSE "batch"
                /\ innerRet' = innerRet /\ exitBy' = exitBy
           [] outcome # "position" /\ r.panic ->
                \* the row arithmetic panics: the stack unwinds through markdown_stream
                /\ pc' = "panicked" /\ exitBy' = "panic"
                /\ UNCHANGED <<buffer, buffer_rows, term, events, applied,
                               committed, imgStart, geom, lastApply, innerRet>>
    /\ UNCHANGED <<chan, senderVars, rawMode, disableCalled, ret, columns, texts,
                   lastKey, gatherAborted, enabledRaw, staticVars, pressVars, ctrlc, ctrld>>

\* the for loop takes Done: spinner cancel, break 'outer; after the loop the
\* spinner cancel if still armed, Ok(())
ApplyDone ==
    /\ pc = "batch" /\ events # <<>> /\ Head(events).done
    /\ spinner_tx' = FALSE /\ spin' = spin
    /\ events' = Tail(events)
    /\ pc' = "inner_ret" /\ innerRet' = "Ok" /\ exitBy' = "done"
    /\ UNCHANGED <<chan, senderVars, rawMode, disableCalled, ret, columns, buffer,
                   buffer_rows, texts, term, histVars, enabledRaw, staticVars,
                   pressVars, ctrlc, ctrld>>

PollOutcomes == {"timeout", "ctrl-c", "ctrl-d", "c", "error"}

\* crossterm::event::poll(25 ms)? and event::read()?
KeyPoll ==
    /\ pc = "poll"
    /\ \E k \in PollOutcomes :
        /\ lastKey' = k
        /\ ctrlc' = (ctrlc \/ k = "ctrl-c")
        /\ ctrld' = (ctrld \/ k = "ctrl-d")
        /\ pressedC' = (pressedC \/ k = "ctrl-c")
        /\ pressedD' = (pressedD \/ k = "ctrl-d")
        /\ pc' = IF k \in {"ctrl-c", "ctrl-d", "error"} THEN "inner_ret" ELSE "check"
        /\ innerRet' = (CASE k \in {"ctrl-c", "ctrl-d"} -> "Ok"
                          [] k = "error" -> "Err"
                          [] OTHER -> innerRet)
        /\ spinner_tx' = IF k \in {"ctrl-c", "ctrl-d"} THEN FALSE ELSE spinner_tx
        /\ spin' = spin
        /\ exitBy' = (CASE k \in {"ctrl-c", "ctrl-d"} -> "key"
                         [] k = "error" -> "error"
                         [] OTHER -> exitBy)
    /\ UNCHANGED <<chan, senderVars, rawMode, disableCalled, ret, localVars, term,
                   applied, committed, imgStart, geom, lastApply, gatherAborted,
                   enabledRaw, staticVars>>

\* markdown_stream: disable_raw_mode()?; ret
DisableRaw ==
    /\ pc = "inner_ret"
    /\ disableCalled' = TRUE
    /\ \E ok \in BOOLEAN :
        IF ok THEN /\ rawMode' = FALSE /\ ret' = innerRet
              ELSE /\ rawMode' = rawMode /\ ret' = "Err"
    /\ pc' = "returned"
    /\ UNCHANGED <<chan, senderVars, innerRet, localVars, spinner_tx, spin, term, histVars,
                   exitVars, staticVars, pressVars, ctrlc, ctrld>>

Next ==
    \/ SendText
    \/ SendDone
    \/ ExternalCtrlc
    \/ EnableRaw
    \/ Setup
    \/ CheckAbort
    \/ GatherRecv
    \/ GatherTimeout
    \/ ApplyText
    \/ ApplyDone
    \/ KeyPoll
    \/ DisableRaw

Spec == Init /\ [][Next]_vars

----------------------------------------------------------------------------
(* Repl::handle: what a parsed line [cmd, args, text] is dispatched to.    *)
(*   "ok"       prints and returns Ok(false)                               *)
(*   "usage"    println!("Usage: ..") and returns Ok(false)                *)
(*   "config"   a configuration or clipboard call that may fail            *)
(*   "unknown"  unknown_command()?                                         *)
(*   "exit"     return Ok(true)                                            *)
(*   "ask"      self.ask(input) with the line as input                     *)
(*   "role_ask" retrieve_role(name)?, then self.ask(input)                 *)
(*   "file_ask" shell_words::split and Input::new(..)?, then self.ask      *)

\* mutant: .exit returns Ok(true) whatever its argument
HandleKindExitAny(l) ==
    LET cmd == l.cmd
        args == l.args
    IN  CASE cmd = ""         -> "ask"
          [] cmd = ".help"    -> "ok"
          [] cmd = ".info"    -> IF args \in {<<>>, <<"role">>, <<"session">>}
                                 THEN "config" ELSE "unknown"
          [] cmd = ".model"   -> IF args # <<>> THEN "config" ELSE "usage"
          [] cmd = ".prompt"  -> IF args # <<>> THEN "config" ELSE "usage"
          [] cmd = ".role"    -> IF args = <<>> THEN "usage"
                                 ELSE IF Len(args) >= 2 THEN "role_ask" ELSE "config"
          [] cmd = ".session" -> "config"
          [] cmd = ".save"    -> IF args # <<>> /\ args[1] = "session"
                                 THEN "config" ELSE "usage"
          [] cmd = ".set"     -> IF args # <<>> THEN "config" ELSE "usage"
          [] cmd = ".copy"    -> "config"
          [] cmd = ".file"    -> IF args # <<>> THEN "file_ask" ELSE "usage"
          [] cmd = ".exit"    -> IF args \in {<<"role">>, <<"session">>}
                                 THEN "config" ELSE "exit"
          [] cmd = ".clear"   -> IF args = <<"messages">> THEN "config" ELSE "unknown"
          [] OTHER            -> "unknown"

HandleKind(l) ==
    LET cmd == l.cmd
        args == l.args
    IN  CASE cmd = ""         -> "ask"
          [] cmd = ".help"    -> "ok"
          [] cmd = ".info"    -> IF args \in {<<>>, <<"role">>, <<"session">>}
                                 THEN "config" ELSE "unknown"
          [] cmd = ".model"   -> IF args # <<>> THEN "config" ELSE "usage"
          [] cmd = ".prompt"  -> IF args # <<>> THEN "config" ELSE "usage"
          [] cmd = ".role"    -> IF args = <<>> THEN "usage"
                                 ELSE IF Len(args) >= 2 THEN "role_ask" ELSE "config"
          [] cmd = ".session" -> "config"
          [] cmd = ".save"    -> IF args # <<>> /\ args[1] = "session"
                                 THEN "config" ELSE "usage"
          [] cmd = ".set"     -> IF args # <<>> THEN "config" ELSE "usage"
          [] cmd = ".copy"    -> "config"
          [] cmd = ".file"    -> IF args # <<>> THEN "file_ask" ELSE "usage"
          [] cmd = ".exit"    -> IF args = <<>> THEN "exit"
                                 ELSE IF args \in {<<"role">>, <<"session">>}
                                 THEN "config" ELSE "unknown"
          [] cmd = ".clear"   -> IF args = <<"messages">> THEN "config" ELSE "unknown"
          [] OTHER            -> "unknown"

\* the lines the user submits
ReadLines ==
    { UserLine, Line("", <<>>, ""), Line(".exit", <<>>, ""),
      Line(".exit", <<"x">>, ""), Line(".set", <<"k", "v">>, ""),
      Line(".help", <<>>, ""), Line(".role", <<"r", "hi">>, ""),
      Line(".model", <<>>, ""), Line(".save", <<"x">>, ""),
      Line(".clear", <<>>, ""), Line(".foo", <<>>, ""),
      Line(".file", <<"f">>, "") }

streamVars == <<chan, nSent, doneSent, txDropped, sentText, lastEndsNl, pc, rawMode,
                disableCalled, innerRet, ret, columns, buffer, buffer_rows,
                spinner_tx, spin, texts, events, term, applied, committed, imgStart, geom,
                lastApply, lastKey, gatherAborted, enabledRaw, exitBy>>

\* send_stream creates the channel and calls render_stream on a terminal whose
\* cursor is at the start of a row
StreamStart ==
    /\ chan' = <<>> /\ nSent' = 0 /\ doneSent' = FALSE /\ sentText' = <<>>
    /\ lastEndsNl' = FALSE /\ txDropped' = FALSE
    /\ spin' = SpinIdle /\ geom' = GeomNone
    /\ pc' = "enter" /\ rawMode' = FALSE /\ disableCalled' = FALSE
    /\ innerRet' = "none" /\ ret' = "none"
    /\ columns' = 0 /\ buffer' = <<>> /\ buffer_rows' = 1 /\ spinner_tx' = FALSE
    /\ texts' = <<>> /\ events' = <<>>
    /\ \E r \in {0, TermRows - 1} : term' = [col |-> 0, row |-> r, top |-> 0]
    /\ applied' = <<>> /\ committed' = <<>> /\ imgStart' = 0
    /\ lastApply' = "none" /\ lastKey' = "none"
    /\ gatherAborted' = FALSE /\ enabledRaw' = FALSE /\ exitBy' = "none"

InitRepl ==
    /\ chan = <<>> /\ nSent = 0 /\ doneSent = FALSE /\ sentText = <<>>
    /\ pc = "idle" /\ rawMode = FALSE /\ disableCalled = FALSE
    /\ innerRet = "none" /\ ret = "none"
    /\ columns = 0 /\ buffer = <<>> /\ buffer_rows = 1 /\ spinner_tx = FALSE
    /\ texts = <<>> /\ events = <<>>
    /\ overflowChecks \in BOOLEAN
    /\ ctrlc = FALSE /\ ctrld = FALSE
    /\ termCols = MaxCols
    /\ term = [col |-> 0, row |-> 0, top |-> 0]
    /\ applied = <<>> /\ committed = <<>> /\ imgStart = 0
    /\ lastApply = "none" /\ lastKey = "none" /\ lastEndsNl = FALSE
    /\ gatherAborted = FALSE /\ enabledRaw = FALSE /\ exitBy = "none"
    /\ rpc = "top" /\ line = UserLine /\ compressing = FALSE
    /\ runRet = "none" /\ replMode = TRUE
    /\ nReads = 0 /\ nLines = 0 /\ nResets = 0 /\ exitCalls = 0
    /\ exitCmd = FALSE /\ lastErr = FALSE /\ pressedC = FALSE /\ pressedD = FALSE
    /\ fn = FnIdle /\ ctask = CtIdle /\ coop = FALSE
    /\ asked = AskNone
    /\ txDropped = FALSE /\ spin = SpinIdle /\ geom = GeomNone /\ eagerWrap = FALSE

constVars == <<overflowChecks, termCols, replMode, envVars>>

\* mutant: the loop breaks on aborted() for aborted_ctrld()
ReplTopAborted ==
    /\ rpc = "top"
    /\ IF aborted
       THEN /\ rpc' = "exit_session" /\ nReads' = nReads
       ELSE /\ nReads < MaxReads
            /\ rpc' = "read" /\ nReads' = nReads + 1
    /\ UNCHANGED <<streamVars, constVars, ctrlc, ctrld, line, compressing, asked, ctask, runRet,
                   nLines, nResets, exitCalls, exitCmd, lastErr, pressVars>>

\* mutant: abort.reset() is called at the top of the loop, before read_line
ReplTopResetFirst ==
    /\ rpc = "top"
    /\ IF aborted_ctrld
       THEN /\ rpc' = "exit_session" /\ nReads' = nReads
            /\ UNCHANGED <<ctrlc, ctrld, nResets>>
       ELSE /\ nReads < MaxReads
            /\ rpc' = "read" /\ nReads' = nReads + 1
            /\ ctrlc' = FALSE /\ ctrld' = FALSE /\ nResets' = nResets + 1
    /\ UNCHANGED <<streamVars, constVars, line, compressing, asked, ctask, runRet,
                   nLines, exitCalls, exitCmd, lastErr, pressVars>>

\* Repl::run, top of the loop: if aborted_ctrld() break, else call read_line
ReplTop ==
    /\ rpc = "top"
    /\ IF aborted_ctrld
       THEN /\ rpc' = "exit_session" /\ nReads' = nReads
       ELSE /\ nReads < MaxReads
            /\ rpc' = "read" /\ nReads' = nReads + 1
    /\ UNCHANGED <<streamVars, constVars, ctrlc, ctrld, line, compressing, asked, ctask, runRet,
                   nLines, nResets, exitCalls, exitCmd, lastErr, pressVars>>

\* mutant: abort.reset() is missing
ReadSuccessNoReset ==
    /\ rpc = "read"
    /\ \E l \in ReadLines : line' = l
    /\ nLines' = nLines + 1
    /\ rpc' = "handle"
    /\ UNCHANGED <<streamVars, constVars, ctrlc, ctrld, compressing, asked, ctask, runRet, nReads,
                   nResets, exitCalls, exitCmd, lastErr, pressVars>>

\* read_line returns Ok(Signal::Success(line)): abort.reset(), then handle
ReadSuccess ==
    /\ rpc = "read"
    /\ \E l \in ReadLines : line' = l
    /\ ctrlc' = FALSE /\ ctrld' = FALSE
    /\ nLines' = nLines + 1 /\ nResets' = nResets + 1
    /\ rpc' = "handle"
    /\ UNCHANGED <<streamVars, constVars, compressing, asked, ctask, runRet, nReads, exitCalls,
                   exitCmd, lastErr, pressVars>>

\* read_line returns Ok(Signal::CtrlC): set_ctrlc, print the hint, loop
ReadCtrlC ==
    /\ rpc = "read"
    /\ ctrlc' = TRUE
    /\ pressedC' = TRUE
    /\ rpc' = "top"
    /\ UNCHANGED <<streamVars, constVars, ctrld, line, compressing, asked, ctask, runRet, nReads,
                   nLines, nResets, exitCalls, exitCmd, lastErr, pressedD>>

\* read_line returns Ok(Signal::CtrlD): set_ctrld, break
ReadCtrlD ==
    /\ rpc = "read"
    /\ ctrld' = TRUE
    /\ pressedD' = TRUE
    /\ rpc' = "exit_session"
    /\ UNCHANGED <<streamVars, constVars, ctrlc, line, compressing, asked, ctask, runRet, nReads,
                   nLines, nResets, exitCalls, exitCmd, lastErr, pressedC>>

\* read_line returns anything else: loop
ReadOther ==
    /\ rpc = "read"
    /\ rpc' = "top"
    /\ UNCHANGED <<streamVars, constVars, ctrlc, ctrld, line, compressing, asked, ctask, runRet,
                   nReads, nLines, nResets, exitCalls, exitCmd, lastErr, pressVars>>

\* mutant: run propagates the error of handle (self.handle(&line).await?)
HandleErrPropagates ==
    /\ rpc = "handle"
    /\ LET kind == HandleKind(line) IN
       \E ok \in BOOLEAN :
         CASE kind \in {"ok", "usage"} /\ ok ->
                rpc' = "top" /\ lastErr' = FALSE /\ exitCmd' = exitCmd
           [] kind = "config" ->
                /\ rpc' = IF ok THEN "top" ELSE "returned"
                /\ lastErr' = ~ok /\ exitCmd' = exitCmd
           [] kind = "unknown" /\ ok ->
                rpc' = "returned" /\ lastErr' = TRUE /\ exitCmd' = exitCmd
           [] kind = "exit" /\ ok ->
                rpc' = "exit_session" /\ lastErr' = FALSE /\ exitCmd' = TRUE
           [] kind = "ask" /\ ok ->
                /\ rpc' = IF line.text = "" THEN "top" ELSE "barrier"
                /\ lastErr' = FALSE /\ exitCmd' = exitCmd
           [] kind \in {"role_ask", "file_ask"} ->
                /\ rpc' = IF ok THEN "barrier" ELSE "returned"
                /\ lastErr' = ~ok /\ exitCmd' = exitCmd
           [] OTHER -> FALSE
    \* ask begins: input.is_empty() or not
    /\ asked' = IF HandleKind(line) = "ask" \/ rpc' = "barrier"
                THEN [AskNone EXCEPT !.empty = (rpc' # "barrier")] ELSE asked
    /\ UNCHANGED <<streamVars, constVars, ctrlc, ctrld, line, compressing, ctask, runRet,
                   nReads, nLines, nResets, exitCalls, pressVars>>

\* self.handle(&line) up to its return or to the barrier of ask; run's match on
\* the result: break on exit, render_error on Err
Handle ==
    /\ rpc = "handle"
    /\ LET kind == HandleKind(line) IN
       \E ok \in BOOLEAN :
         CASE kind \in {"ok", "usage"} /\ ok ->
                rpc' = "top" /\ lastErr' = FALSE /\ exitCmd' = exitCmd
           [] kind = "config" ->
                rpc' = "top" /\ lastErr' = ~ok /\ exitCmd' = exitCmd
           [] kind = "unknown" /\ ok ->
                rpc' = "top" /\ lastErr' = TRUE /\ exitCmd' = exitCmd
           [] kind = "exit" /\ ok ->
                rpc' = "exit_session" /\ lastErr' = FALSE /\ exitCmd' = TRUE
           [] kind = "ask" /\ ok ->
                \* ask: if input.is_empty() return Ok(())
                /\ rpc' = IF line.text = "" THEN "top" ELSE "barrier"
                /\ lastErr' = FALSE /\ exitCmd' = exitCmd
           [] kind \in {"role_ask", "file_ask"} ->
                /\ rpc' = IF ok THEN "barrier" ELSE "top"
                /\ lastErr' = ~ok /\ exitCmd' = exitCmd
           [] OTHER -> FALSE
    \* ask begins: input.is_empty() or not
    /\ asked' = IF HandleKind(line) = "ask" \/ rpc' = "barrier"
                THEN [AskNone EXCEPT !.empty = (rpc' # "barrier")] ELSE asked
    /\ UNCHANGED <<streamVars, constVars, ctrlc, ctrld, line, compressing, ctask, runRet,
                   nReads, nLines, nResets, exitCalls, pressVars>>

\* mutant: ask does not wait for the compression to end
AskBarrierNoWait ==
    /\ rpc = "barrier"
    /\ rpc' = "client"
    /\ UNCHANGED <<streamVars, constVars, ctrlc, ctrld, line, compressing, asked, ctask, runRet,
                   nReads, nLines, nResets, exitCalls, exitCmd, lastErr, pressVars>>

\* ask: while is_compressing_session() { std::thread::sleep(100 ms) }: one test
\* of the flag
AskBarrier ==
    /\ rpc = "barrier"
    /\ rpc' = IF compressing THEN "sleep" ELSE "client"
    /\ UNCHANGED <<streamVars, constVars, ctrlc, ctrld, line, compressing, asked, ctask, runRet,
                   nReads, nLines, nResets, exitCalls, exitCmd, lastErr, pressVars>>

\* ask: std::thread::sleep returns; the thread was blocked, not suspended
AskSleep ==
    /\ rpc = "sleep"
    /\ rpc' = "barrier"
    /\ UNCHANGED <<streamVars, constVars, ctrlc, ctrld, line, compressing, asked, ctask, runRet,
                   nReads, nLines, nResets, exitCalls, exitCmd, lastErr, pressVars>>

\* ask: init_client()?, ensure_model_capabilities()?, then send_stream starts
AskClient ==
    /\ rpc = "client"
    /\ \E ok \in BOOLEAN :
        IF ok THEN /\ rpc' = "send" /\ lastErr' = lastErr
                   /\ asked' = [asked EXCEPT !.checked = TRUE, !.sent = TRUE]
                   /\ StreamStart
              ELSE /\ rpc' = "top" /\ lastErr' = TRUE
                   /\ asked' = [asked EXCEPT !.failed = TRUE]
                   /\ UNCHANGED streamVars
    /\ UNCHANGED <<constVars, ctrlc, ctrld, line, compressing, ctask, runRet, nReads,
                   nLines, nResets, exitCalls, exitCmd, pressVars>>

\* mutant: the result of send_stream is dropped (no ? after the await)
AskSendReturnIgnoresErr ==
    /\ rpc = "send" /\ pc = "returned"
    /\ pc' = "idle"
    /\ \E clientOk \in BOOLEAN :
        /\ rpc' = "save" /\ lastErr' = lastErr
        /\ asked' = IF ret = "Ok" /\ clientOk
                    THEN [asked EXCEPT !.sendOk = TRUE]
                    ELSE [asked EXCEPT !.failed = TRUE]
    /\ UNCHANGED <<chan, nSent, doneSent, txDropped, sentText, lastEndsNl, rawMode,
                   disableCalled, innerRet, ret, columns, buffer, buffer_rows,
                   spinner_tx, spin, texts, events, term, applied, committed, imgStart, geom,
                   lastApply, lastKey, gatherAborted, enabledRaw, exitBy,
                   constVars, ctrlc, ctrld, line, compressing, ctask, runRet, nReads,
                   nLines, nResets, exitCalls, exitCmd, pressVars>>

\* ask: send_stream(..).await? returns once the renderer has returned
AskSendReturn ==
    /\ rpc = "send" /\ pc = "returned"
    /\ pc' = "idle"
    /\ \E clientOk \in BOOLEAN :
        IF ret = "Ok" /\ clientOk
        THEN /\ rpc' = "save" /\ lastErr' = lastErr
             /\ asked' = [asked EXCEPT !.sendOk = TRUE]
        ELSE /\ rpc' = "top" /\ lastErr' = TRUE
             /\ asked' = [asked EXCEPT !.failed = TRUE]
    /\ UNCHANGED <<chan, nSent, doneSent, txDropped, sentText, lastEndsNl, rawMode,
                   disableCalled, innerRet, ret, columns, buffer, buffer_rows,
                   spinner_tx, spin, texts, events, term, applied, committed, imgStart, geom,
                   lastApply, lastKey, gatherAborted, enabledRaw, exitBy,
                   constVars, ctrlc, ctrld, line, compressing, ctask, runRet, nReads,
                   nLines, nResets, exitCalls, exitCmd, pressVars>>

\* a panic of the renderer unwinds through ask, handle and run
AskPanic ==
    /\ rpc = "send" /\ pc = "panicked"
    /\ rpc' = "panicked"
    /\ UNCHANGED <<streamVars, constVars, ctrlc, ctrld, line, compressing, asked, ctask, runRet,
                   nReads, nLines, nResets, exitCalls, exitCmd, lastErr, pressVars>>

\* ask: save_message()?, maybe_copy, should_compress_session() and the spawn of
\* the compression task; handle returns Ok(false)
AskSave ==
    /\ rpc = "save"
    /\ \E ok \in BOOLEAN, over \in BOOLEAN :
        /\ ok \/ ~over
        /\ lastErr' = ~ok
        /\ compressing' = IF ok /\ over /\ ~compressing THEN TRUE ELSE compressing
        /\ ctask' = IF ok /\ over /\ ~compressing
                    THEN [CtIdle EXCEPT !.pc = "spawned"] ELSE ctask
        /\ asked' = [asked EXCEPT !.saved = IF ok THEN @ + 1 ELSE @,
                                  !.spawned = (ok /\ over /\ ~compressing)]
    /\ rpc' = "top"
    /\ UNCHANGED <<streamVars, constVars, ctrlc, ctrld, line, runRet, nReads,
                   nLines, nResets, exitCalls, exitCmd, pressVars>>

\* the main task is suspended in an await of code under src/: gather_events
MainAwaits == rpc = "send" /\ pc = "gather"

\* a spawned task can be polled
TaskRuns == coop => MainAwaits

\* mutant: the read guard is bound to a variable and lives across the call
CompressStartHoldsRead ==
    /\ ctask.pc = "spawned" /\ TaskRuns
    /\ \E ok \in BOOLEAN :
        ctask' = [ctask EXCEPT !.pc = IF ok THEN "flight" ELSE "end",
                               !.reads = 2, !.lock = IF ok THEN "read" ELSE "none"]
    /\ UNCHANGED <<streamVars, constVars, ctrlc, ctrld, rpc, line, compressing, asked, runRet,
                   nReads, nLines, nResets, exitCalls, exitCmd, lastErr, pressVars>>

\* compress_session up to the await: the two config.read() of the Input
\* statement, released at its end; init_client()?, ensure_model_capabilities()?;
\* client.send_message(input) is in flight
CompressStart ==
    /\ ctask.pc = "spawned" /\ TaskRuns
    /\ \E ok \in BOOLEAN :
        ctask' = [ctask EXCEPT !.pc = IF ok THEN "flight" ELSE "end",
                               !.reads = 2, !.lock = "none"]
    /\ UNCHANGED <<streamVars, constVars, ctrlc, ctrld, rpc, line, compressing, asked, runRet,
                   nReads, nLines, nResets, exitCalls, exitCmd, lastErr, pressVars>>

\* send_message(..).await? returns: on Ok config.write().compress_session(..),
\* on Err nothing; compress_session returns to the spawned block
CompressReply ==
    /\ ctask.pc = "flight" /\ TaskRuns
    /\ \E ok \in BOOLEAN :
        ctask' = [ctask EXCEPT !.pc = "end", !.lock = "none",
                               !.writes = IF ok THEN @ + 1 ELSE @]
    /\ UNCHANGED <<streamVars, constVars, ctrlc, ctrld, rpc, line, compressing, asked, runRet,
                   nReads, nLines, nResets, exitCalls, exitCmd, lastErr, pressVars>>

\* the spawned block: let _ = ..; config.write().end_compressing_session()
CompressEnd ==
    /\ ctask.pc = "end" /\ TaskRuns
    /\ ctask' = [ctask EXCEPT !.pc = "none", !.writes = @ + 1]
    /\ compressing' = FALSE
    /\ UNCHANGED <<streamVars, constVars, ctrlc, ctrld, rpc, line, asked, runRet, nReads,
                   nLines, nResets, exitCalls, exitCmd, lastErr, pressVars>>

\* after the loop: self.handle(".exit session").await?; Ok(())
ExitSession ==
    /\ rpc = "exit_session"
    /\ exitCalls' = exitCalls + 1
    /\ \E ok \in BOOLEAN :
        /\ ok \/ HandleKind(Line(".exit", <<"session">>, "")) = "config"
        /\ runRet' = IF ok THEN "Ok" ELSE "Err"
    /\ rpc' = "returned"
    /\ UNCHANGED <<streamVars, constVars, ctrlc, ctrld, line, compressing, asked, ctask, nReads,
                   nLines, nResets, exitCmd, lastErr, pressVars>>

NextRepl ==
    \/ ReplTop
    \/ ReadSuccess
    \/ ReadCtrlC
    \/ ReadCtrlD
    \/ ReadOther
    \/ Handle
    \/ AskBarrier
    \/ AskSleep
    \/ AskClient
    \/ AskSendReturn
    \/ AskPanic
    \/ AskSave
    \/ CompressStart
    \/ CompressReply
    \/ CompressEnd
    \/ ExitSession
    \/ Next

SpecRepl == InitRepl /\ [][NextRepl]_vars

\* the REPL under either runtime
InitCoop ==
    /\ chan = <<>> /\ nSent = 0 /\ doneSent = FALSE /\ sentText = <<>>
    /\ pc = "idle" /\ rawMode = FALSE /\ disableCalled = FALSE
    /\ innerRet = "none" /\ ret = "none"
    /\ columns = 0 /\ buffer = <<>> /\ buffer_rows = 1 /\ spinner_tx = FALSE
    /\ texts = <<>> /\ events = <<>>
    /\ overflowChecks \in BOOLEAN
    /\ ctrlc = FALSE /\ ctrld = FALSE
    /\ termCols = MaxCols
    /\ term = [col |-> 0, row |-> 0, top |-> 0]
    /\ applied = <<>> /\ committed = <<>> /\ imgStart = 0
    /\ lastApply = "none" /\ lastKey = "none" /\ lastEndsNl = FALSE
    /\ gatherAborted = FALSE /\ enabledRaw = FALSE /\ exitBy = "none"
    /\ rpc = "top" /\ line = UserLine /\ compressing = FALSE
    /\ runRet = "none" /\ replMode = TRUE
    /\ nReads = 0 /\ nLines = 0 /\ nResets = 0 /\ exitCalls = 0
    /\ exitCmd = FALSE /\ lastErr = FALSE /\ pressedC = FALSE /\ pressedD = FALSE
    /\ fn = FnIdle /\ ctask = CtIdle /\ coop \in BOOLEAN
    /\ asked = AskNone
    /\ txDropped = FALSE /\ spin = SpinIdle /\ geom = GeomNone /\ eagerWrap = FALSE

\* the main task goes on whenever it can, and the runtime polls a spawned task
\* that can run
FairRepl ==
    /\ WF_vars(NextRepl)
    /\ WF_vars(AskBarrier) /\ WF_vars(AskSleep)
    /\ WF_vars(CompressStart) /\ WF_vars(CompressReply) /\ WF_vars(CompressEnd)

SpecCoop == InitCoop /\ [][NextRepl]_vars /\ FairRepl

----------------------------------------------------------------------------
(* The renderer with its environment: render_stream chooses markdown_stream *)
(* or raw_stream, the sender may be dropped before Done, the spinner is a   *)
(* task of its own, the terminal may wrap eagerly                           *)

InitStream ==
    /\ chan = <<>> /\ nSent = 0 /\ doneSent = FALSE /\ sentText = <<>>
    \* render_stream: stdout().is_terminal() or not
    /\ pc \in {"enter", "raw_check"}
    /\ rawMode = FALSE /\ disableCalled = FALSE
    /\ innerRet = "none" /\ ret = "none"
    /\ columns = 0 /\ buffer = <<>> /\ buffer_rows = 1 /\ spinner_tx = FALSE
    /\ texts = <<>> /\ events = <<>>
    /\ overflowChecks = FALSE
    /\ ctrlc = FALSE /\ ctrld = FALSE
    /\ termCols \in 2..MaxCols
    /\ \E r \in {0, TermRows - 1} : term = [col |-> 0, row |-> r, top |-> 0]
    /\ applied = <<>> /\ committed = <<>> /\ imgStart = 0
    /\ lastApply = "none" /\ lastKey = "none" /\ lastEndsNl = FALSE
    /\ gatherAborted = FALSE /\ enabledRaw = FALSE /\ exitBy = "none"
    /\ rpc = "send" /\ line = UserLine /\ compressing = FALSE
    /\ runRet = "none" /\ replMode = FALSE
    /\ nReads = 1 /\ nLines = 1 /\ nResets = 1 /\ exitCalls = 0
    /\ exitCmd = FALSE /\ lastErr = FALSE /\ pressedC = FALSE /\ pressedD = FALSE
    /\ fn = FnIdle /\ ctask = CtIdle /\ coop \in BOOLEAN
    /\ asked = AskNone
    /\ txDropped = FALSE /\ spin = SpinIdle /\ geom = GeomNone
    /\ eagerWrap \in BOOLEAN

\* the sender is dropped before Done was sent: the channel is closed
SenderDrop ==
    /\ RxAlive /\ ~doneSent /\ ~txDropped
    /\ txDropped' = TRUE
    /\ UNCHANGED <<chan, nSent, doneSent, sentText, lastEndsNl, rendererVars,
                   staticVars, pressVars, ctrlc, ctrld>>

\* gather_events: rx.recv() yields None on the closed and drained channel, the
\* while let ends and the first branch of the select completes
GatherClosed ==
    /\ pc = "gather" /\ chan = <<>> /\ txDropped
    /\ events' = Batch(texts, FALSE)
    /\ pc' = IF texts = <<>> THEN "poll" ELSE "batch"
    /\ texts' = <<>>
    /\ UNCHANGED <<chan, senderVars, rawMode, disableCalled, innerRet, ret, columns,
                   buffer, buffer_rows, spinner_tx, spin, term, histVars, exitVars,
                   staticVars, pressVars, ctrlc, ctrld>>

\* raw_stream, top of the loop: if abort.aborted() { return Ok(()) }
RawCheck ==
    /\ pc = "raw_check"
    /\ IF aborted
       THEN /\ pc' = "returned" /\ ret' = "Ok" /\ exitBy' = "abort"
       ELSE /\ pc' = "raw_recv" /\ ret' = ret /\ exitBy' = exitBy
    /\ UNCHANGED <<chan, senderVars, rawMode, disableCalled, innerRet, localVars,
                   spinner_tx, spin, term, histVars, enabledRaw, staticVars,
                   pressVars, ctrlc, ctrld>>

\* raw_stream: rx.recv() yields an event: Text is printed to stdout, which is
\* not the terminal, and flushed; Done breaks the loop
RawRecv ==
    /\ pc = "raw_recv" /\ chan # <<>>
    /\ chan' = Tail(chan)
    /\ IF Head(chan).done
       THEN /\ pc' = "returned" /\ ret' = "Ok" /\ exitBy' = "done"
            /\ applied' = applied
       ELSE \E ok \in BOOLEAN :
            /\ applied' = applied \o Head(chan).text
            /\ IF ok THEN /\ pc' = "raw_check" /\ ret' = ret /\ exitBy' = exitBy
                     ELSE /\ pc' = "returned" /\ ret' = "Err" /\ exitBy' = "error"
    /\ UNCHANGED <<senderVars, rawMode, disableCalled, innerRet, localVars,
                   spinner_tx, spin, term, committed, imgStart, geom, lastApply,
                   lastKey, gatherAborted, enabledRaw, staticVars, pressVars,
                   ctrlc, ctrld>>

\* raw_stream: rx.recv() yields None on the closed and drained channel; the
\* if let has no else, the loop goes on
RawClosed ==
    /\ pc = "raw_recv" /\ chan = <<>> /\ txDropped
    /\ pc' = "raw_check"
    /\ UNCHANGED <<chan, senderVars, rawMode, disableCalled, innerRet, ret, localVars,
                   spinner_tx, spin, term, histVars, exitVars, staticVars,
                   pressVars, ctrlc, ctrld>>

\* columns written by one frame of the spinner: narrower than the terminal
SpinnerWidth == 1

\* the one-shot of the spinner has fired, or its sender was dropped
SpinnerCancelled ==
    ~spinner_tx \/ pc \in {"inner_ret", "returned", "panicked", "idle"}

\* run_spinner: a tick of the interval: clear the line, draw glyph and label
SpinnerFrame ==
    /\ spin.pc = "run" /\ ~SpinnerCancelled /\ TaskRuns
    /\ term' = TermPrint([term EXCEPT !.col = 0], SpinnerWidth)
    /\ UNCHANGED <<chan, senderVars, pc, rawMode, disableCalled, innerRet, ret,
                   localVars, spinner_tx, spin, histVars, exitVars, staticVars,
                   pressVars, ctrlc, ctrld>>

\* run_spinner: the cancel is observed: erase the line and return
SpinnerStop ==
    /\ spin.pc = "run" /\ SpinnerCancelled /\ TaskRuns
    /\ term' = [term EXCEPT !.col = 0]
    /\ spin' = [pc |-> "done", late |-> applied # <<>>]
    /\ UNCHANGED <<chan, senderVars, pc, rawMode, disableCalled, innerRet, ret,
                   localVars, spinner_tx, histVars, exitVars, staticVars,
                   pressVars, ctrlc, ctrld>>

NextStream ==
    \/ Next
    \/ SenderDrop
    \/ GatherClosed
    \/ RawCheck
    \/ RawRecv
    \/ RawClosed
    \/ SpinnerFrame
    \/ SpinnerStop

\* one step of the renderer task, whichever function it is in
RendererStep ==
    \/ EnableRaw \/ Setup \/ CheckAbort
    \/ GatherRecv \/ GatherTimeout \/ GatherClosed
    \/ ApplyText \/ ApplyDone \/ KeyPoll \/ DisableRaw
    \/ RawCheck \/ RawRecv \/ RawClosed

\* the renderer goes on whenever it can, and so does the spinner; the sender
\* and the keyboard are free
FairStream ==
    /\ WF_vars(RendererStep)
    /\ WF_vars(SpinnerFrame \/ SpinnerStop)

SpecStream == InitStream /\ [][NextStream]_vars /\ FairStream

----------------------------------------------------------------------------
(* The line functions of the REPL: ReplValidator::validate, the fence       *)
(* rewrite at the head of Repl::handle (MULTILINE_RE), parse_command        *)
(* (COMMAND_RE); and need_rows on strings and widths of its whole range.    *)

\* Option: None and Some(x)
None == <<>>
Some(x) == <<x>>

\* char::is_whitespace and \s, on the characters of the model
IsWs(c) == c \in {" ", NL, TAB}

RECURSIVE TrimStart(_)
TrimStart(s) ==
    IF s # <<>> /\ IsWs(Head(s)) THEN TrimStart(Tail(s)) ELSE s

RECURSIVE TrimEnd(_)
TrimEnd(s) ==
    IF s # <<>> /\ IsWs(s[Len(s)]) THEN TrimEnd(SubSeq(s, 1, Len(s) - 1)) ELSE s

\* str::trim
Trim(s) == TrimEnd(TrimStart(s))

StartsWith(s, p) == Len(s) >= Len(p) /\ SubSeq(s, 1, Len(p)) = p
EndsWith(s, p) == Len(s) >= Len(p) /\ SubSeq(s, Len(s) - Len(p) + 1, Len(s)) = p

Fence == <<":", ":", ":">>

\* mutant: ends_with is asked of the whole trimmed line
validate_whole(ln) ==
    LET t == Trim(ln) IN
    IF StartsWith(t, Fence) /\ ~EndsWith(t, Fence)
    THEN "Incomplete" ELSE "Complete"

\* ReplValidator::validate
validate(ln) ==
    LET t == Trim(ln) IN
    IF StartsWith(t, Fence) /\ ~EndsWith(SubSeq(t, 4, Len(t)), Fence)
    THEN "Incomplete" ELSE "Complete"

\* number of whitespace characters at the head of s: a greedy \s*
WsRun(s) == Len(s) - Len(TrimStart(s))

\* number of non-whitespace characters at the head of s: a greedy \S*
RECURSIVE NonWsRun(_)
NonWsRun(s) ==
    IF s # <<>> /\ ~IsWs(Head(s)) THEN 1 + NonWsRun(Tail(s)) ELSE 0

\* s from its (n+1)-th character on: &s[n..]
Drop(s, n) == SubSeq(s, n + 1, Len(s))

\* the rest of MULTILINE_RE after the group: \s*:::\s*$
MatchesClose(r) ==
    LET a == TrimStart(r) IN
    StartsWith(a, Fence) /\ TrimStart(Drop(a, 3)) = <<>>

\* MULTILINE_RE.captures(line), group 1: (?s)^\s*:::\s*(.*)\s*:::\s*$ with
\* greedy quantifiers tried longest first; None when the line does not match
MultilineCapture(ln) ==
    LET a == TrimStart(ln) IN
    IF ~StartsWith(a, Fence) THEN None
    ELSE LET b  == Drop(a, 3)
             ws == { w \in 0..WsRun(b) :
                       \E k \in 0..(Len(b) - w) : MatchesClose(Drop(b, w + k)) }
         IN IF ws = {} THEN None
            ELSE LET w == CHOOSE x \in ws : \A y \in ws : y <= x
                     c == Drop(b, w)
                     ks == { k \in 0..Len(c) : MatchesClose(Drop(c, k)) }
                     k == CHOOSE x \in ks : \A y \in ks : y <= x
                 IN Some(SubSeq(c, 1, k))

\* Repl::handle, lines 133-137: the line that goes to parse_command
Unfence(ln) ==
    IF MultilineCapture(ln) = None THEN ln ELSE MultilineCapture(ln)[1]

\* mutant: the arguments are not trimmed
parse_command_untrimmed(ln) ==
    LET i == WsRun(ln)
        a == Drop(ln, i)
    IN IF a = <<>> \/ Head(a) # "." THEN None
       ELSE LET j == NonWsRun(a)
                m == i + j + WsRun(Drop(a, j))
                args == Drop(ln, m)
            IN Some([cmd |-> SubSeq(a, 1, j),
                     args |-> IF args = <<>> THEN None ELSE Some(args)])

\* parse_command: COMMAND_RE ^\s*(\.\S*)\s* matched at the start of the line,
\* the arguments are the line after the match, trimmed
parse_command(ln) ==
    LET i == WsRun(ln)
        a == Drop(ln, i)
    IN IF a = <<>> \/ Head(a) # "." THEN None
       ELSE LET j == NonWsRun(a)
                m == i + j + WsRun(Drop(a, j))
                args == Trim(Drop(ln, m))
            IN Some([cmd |-> SubSeq(a, 1, j),
                     args |-> IF args = <<>> THEN None ELSE Some(args)])

\* all strings over alphabet of length up to n
Str(alphabet, n) == UNION { [1..k -> alphabet] : k \in 0..n }

LineAlphabet == {" ", NL, ":", ".", "a"}

\* the lines of the unit test and of the fence scenario, with "a", "b" for words
ExampleLines ==
    { <<" ", ".">>, <<" ", ".", "a">>, <<" ", ".", "a", " ", " ">>,
      <<" ", ".", "a", " ", "a", " ", "a">>,
      <<" ", ".", "a", " ", "a", " ", "a", " ", " ">>,
      <<".", "a", " ", NL, "a", NL>>,
      Fence \o <<NL, "a", NL, "a", NL>> \o Fence }

\* fenced submissions: outer whitespace, fence, inner text, fence, outer whitespace
FencedLines ==
    { o \o Fence \o t \o Fence \o c :
        o \in {<<>>, <<" ">>}, t \in Str(LineAlphabet, MaxInnerLen),
        c \in {<<>>, <<NL>>} }

LineInputs == Str(LineAlphabet, MaxLineLen) \cup FencedLines \cup ExampleLines

WidthInputs == Str({"a", "L", "z"}, MaxWidthLen)
ColumnInputs == {1, 2, MaxCols, U16 - 1}

InitFn ==
    /\ chan = <<>> /\ nSent = 0 /\ doneSent = FALSE /\ sentText = <<>>
    /\ pc = "idle" /\ rawMode = FALSE /\ disableCalled = FALSE
    /\ innerRet = "none" /\ ret = "none"
    /\ columns = 0 /\ buffer = <<>> /\ buffer_rows = 1 /\ spinner_tx = FALSE
    /\ texts = <<>> /\ events = <<>>
    /\ overflowChecks \in BOOLEAN
    /\ ctrlc = FALSE /\ ctrld = FALSE
    /\ termCols = MaxCols
    /\ term = [col |-> 0, row |-> 0, top |-> 0]
    /\ applied = <<>> /\ committed = <<>> /\ imgStart = 0
    /\ lastApply = "none" /\ lastKey = "none" /\ lastEndsNl = FALSE
    /\ gatherAborted = FALSE /\ enabledRaw = FALSE /\ exitBy = "none"
    /\ rpc = "idle" /\ line = UserLine /\ compressing = FALSE
    /\ runRet = "none" /\ replMode = TRUE
    /\ nReads = 0 /\ nLines = 0 /\ nResets = 0 /\ exitCalls = 0
    /\ exitCmd = FALSE /\ lastErr = FALSE /\ pressedC = FALSE /\ pressedD = FALSE
    /\ ctask = CtIdle /\ coop = FALSE
    /\ asked = AskNone
    /\ txDropped = FALSE /\ spin = SpinIdle /\ geom = GeomNone /\ eagerWrap = FALSE
    /\ \/ \E l \in LineInputs :
            fn = [FnIdle EXCEPT !.pc = "edit", !.in = l, !.line = l]
       \/ \E w \in WidthInputs, c \in ColumnInputs :
            fn = [FnIdle EXCEPT !.pc = "measure", !.in = w, !.cols = c]

fnRest == <<chan, nSent, doneSent, txDropped, sentText, pc, rawMode, disableCalled, innerRet,
            ret, columns, buffer, buffer_rows, spinner_tx, spin, texts, events,
            overflowChecks, ctrlc, ctrld, term, termCols, applied, committed,
            imgStart, geom, lastApply, lastKey, lastEndsNl, gatherAborted, enabledRaw,
            exitBy, rpc, line, compressing, asked, runRet, replMode, nReads, nLines,
            nResets, exitCalls, exitCmd, lastErr, pressedC, pressedD, ctask, coop,
            eagerWrap>>

\* the editor asks the validator about the submission
FnValidate ==
    /\ fn.pc = "edit"
    /\ fn' = [fn EXCEPT !.pc = "validated", !.valid = validate(fn.in)]
    /\ UNCHANGED fnRest

\* a complete submission is returned by read_line; handle unwraps the fence
FnUnfence ==
    /\ fn.pc = "validated" /\ fn.valid = "Complete"
    /\ fn' = [fn EXCEPT !.pc = "unfenced", !.line = Unfence(fn.in)]
    /\ UNCHANGED fnRest

\* parse_command on the line, as handle calls it or as the unit test does
FnParse ==
    /\ fn.pc \in {"edit", "unfenced"}
    /\ fn' = [fn EXCEPT !.pc = "parsed", !.parsed = parse_command(fn.line)]
    /\ UNCHANGED fnRest

\* need_rows(text, columns)
FnNeedRows ==
    /\ fn.pc = "measure"
    /\ IF need_rows_panics(fn.in, fn.cols)
       THEN fn' = [fn EXCEPT !.pc = "panicked"]
       ELSE fn' = [fn EXCEPT !.pc = "rows", !.rows = need_rows(fn.in, fn.cols)]
    /\ UNCHANGED fnRest

NextFn ==
    \/ FnValidate
    \/ FnUnfence
    \/ FnParse
    \/ FnNeedRows

SpecFn == InitFn /\ [][NextFn]_vars

----------------------------------------------------------------------------
(* Properties of the renderer, checked under Spec *)

\* C1: whenever markdown_stream has enabled raw mode, disable_raw_mode() has
\* been called on every exit of the function: return on Done, on abort, on a
\* Ctrl-C/Ctrl-D key, on an error inside the loop, and unwinding by a panic.
C1_RawModeReleased ==
    (pc \in {"returned", "panicked"} /\ enabledRaw) => disableCalled

RECURSIVE EventsText(_)
\* the Text payloads of a sequence of events, concatenated
EventsText(es) ==
    IF es = <<>> THEN <<>> ELSE Head(es).text \o EventsText(Tail(es))

\* the text received or in flight and not yet handed to chunk-apply
Pending == EventsText(events) \o Join(texts) \o EventsText(chan)

\* C2: the texts handed to chunk-apply, concatenated in the order applied, are at
\* every moment of the loop a prefix of the payloads sent, the rest being the
\* batch, the gathered texts and the channel in that order; when the stream
\* ends on Done they equal the concatenation of all payloads sent.
C2_AppliedInOrder ==
    /\ pc \in {"check", "gather", "batch", "poll"} => sentText = applied \o Pending
    /\ exitBy = "done" => applied = sentText

C2_Witness ==
    /\ exitBy = "done" /\ nSent >= 2
    /\ Len(applied) >= 2 /\ applied = sentText

\* the chunk-apply algorithm on the whole text as a single chunk
SingleChunk(t) == ChunkApply(<<>>, 1, [col |-> 0, row |-> 0, top |-> 0], t)

\* C3: when the stream ends on Done, the committed blocks as printed, the final
\* buffer and its rendered image are those of the whole text applied as a
\* single chunk, however the text was split into chunks and batches.
C3_SplitIndependent ==
    exitBy = "done" =>
        /\ committed = SingleChunk(sentText).out
        /\ buffer = SingleChunk(sentText).buffer
        /\ render_line(buffer) = render_line(SingleChunk(sentText).buffer)

C3_Witness ==
    /\ exitBy = "done" /\ nSent >= 2
    /\ committed # <<>> /\ buffer # <<>>
    /\ committed = SingleChunk(sentText).out

\* C4: after every successful chunk application buffer_rows is the number of
\* terminal rows the rendered image of buffer occupies: the rows from the one
\* where the image starts to the cursor's row.
C4_RowsMatchImage ==
    lastApply = "ok" => buffer_rows = term.row - imgStart + 1

KeyEffect ==
    CASE lastKey' = "ctrl-c" ->
            ctrlc' /\ ctrld' = ctrld /\ pc' = "inner_ret" /\ innerRet' = "Ok"
      [] lastKey' = "ctrl-d" ->
            ctrld' /\ ctrlc' = ctrlc /\ pc' = "inner_ret" /\ innerRet' = "Ok"
      [] lastKey' = "error" -> pc' = "inner_ret" /\ innerRet' = "Err"
      [] OTHER -> ctrlc' = ctrlc /\ ctrld' = ctrld /\ pc' = "check"

\* C6: no gather is started while an abort flag is set; at the cancellation
\* check a set flag makes the renderer return Ok without receiving or applying
\* anything; a Ctrl-C or Ctrl-D seen by the keyboard poll sets its flag and
\* leaves the loop in that iteration, any other key changes neither flag and
\* the loop goes on.
C6_AbortExits ==
    /\ [](~gatherAborted)
    /\ [][(pc = "check" /\ aborted /\ pc' # "check")
            => (pc' = "inner_ret" /\ innerRet' = "Ok"
                /\ applied' = applied /\ chan' = chan)]_vars
    /\ [][(pc = "poll" /\ pc' # "poll") => KeyEffect]_vars

C6_Witness ==
    /\ exitBy = "abort" /\ pc = "returned" /\ ret = "Ok"
    /\ ctrlc /\ applied # sentText

----------------------------------------------------------------------------
(* Properties of the REPL, checked under SpecRepl *)

\* C7: the REPL leaves its loop only after Ctrl-D or the .exit command, so
\* Ctrl-C at the prompt or during a reply does not end it; from the top of the
\* loop it goes on to read_line unless Ctrl-D was pressed; once Ctrl-D has been
\* pressed, at the prompt or during a reply, no read_line is begun.
C7_CtrlCContinuesCtrlDExits ==
    /\ [](rpc \in {"exit_session", "returned"} => (pressedD \/ exitCmd))
    /\ [][(rpc = "top" /\ rpc' # "top" /\ ~pressedD) => rpc' = "read"]_vars
    /\ [][pressedD => nReads' = nReads]_vars

C7_Witness ==
    /\ rpc = "read" /\ nReads >= 2
    /\ exitBy = "key" /\ lastKey = "ctrl-c" /\ ctrlc

\* C8: handle(".exit session") is called once, after the loop, and run returns
\* only from that call; no step of handle or ask inside the loop makes run
\* return.
C8_ExitSessionOnce ==
    /\ [](rpc = "returned" => exitCalls = 1)
    /\ [](exitCalls <= 1)
    /\ [][exitCalls' # exitCalls => (rpc = "exit_session" /\ rpc' = "returned")]_vars
    /\ [][(rpc' = "returned" /\ rpc # "returned") => rpc = "exit_session"]_vars

C8_Witness ==
    /\ rpc = "returned" /\ exitCalls = 1
    /\ lastErr /\ nLines >= 1

\* C9: when handle and ask start on a line the user submitted, abort.reset()
\* has been called for that line and both flags are clear.
C9_FlagsClearAtRequest ==
    rpc \in {"handle", "barrier", "client"} =>
        (~ctrlc /\ ~ctrld /\ nResets = nLines)

C9_Witness ==
    /\ rpc = "handle" /\ nLines >= 2
    /\ pressedC /\ exitBy = "key" /\ nReads > nLines

\* C10 as stated: a flag that has been set is reset before the following
\* read_line begins, so no flag is set while read_line runs.
C10_ResetBeforeRead ==
    rpc = "read" => ~aborted

\* C10 amended: abort.reset() is called only when read_line has returned a
\* line, before that line is handled; a flag set by Ctrl-C is still set when
\* the following read_line begins.
C10_ResetAfterLine ==
    /\ [][nResets' # nResets
            => (rpc = "read" /\ rpc' = "handle" /\ nResets' = nLines')]_vars
    /\ [][(aborted /\ ~aborted') => (rpc = "read" /\ rpc' = "handle")]_vars
    /\ [][(ctrlc /\ rpc = "top" /\ rpc' = "read") => ctrlc']_vars

C10_Witness ==
    rpc = "read" /\ ctrlc /\ pressedC

\* C15 as stated: every unknown or malformed command (unknown name, invalid or
\* missing required argument or subcommand) makes handle return an error, which
\* the loop renders before it continues.
C15_MalformedIsError ==
    [][(rpc = "handle" /\ rpc' # "handle"
        /\ HandleKind(line) \in {"unknown", "usage"})
            => (lastErr' /\ rpc' = "top")]_vars

\* C15 amended: an unknown name or an unknown subcommand of .info, .exit or
\* .clear makes handle return an error, which the loop renders; a missing
\* argument of .model, .prompt, .role, .set or .file, and .save without
\* "session", prints a usage line and returns Ok(false) with no error; in both
\* cases the loop continues; handle returns exit = true exactly for .exit
\* with no argument.
C15_ErrorOrUsage ==
    [][(rpc = "handle" /\ rpc' # "handle") =>
        /\ HandleKind(line) = "unknown" => (lastErr' /\ rpc' = "top")
        /\ HandleKind(line) = "usage" => (~lastErr' /\ rpc' = "top")
        /\ rpc' = "exit_session" <=> (line.cmd = ".exit" /\ line.args = <<>>)
        /\ exitCmd' <=> (exitCmd \/ (line.cmd = ".exit" /\ line.args = <<>>))]_vars

C15_Witness ==
    /\ rpc = "top" /\ nLines >= 2
    /\ line.cmd = ".model" /\ line.args = <<>> /\ ~lastErr

----------------------------------------------------------------------------
(* Properties of the line functions and of need_rows, checked under SpecFn *)

\* C16 as stated: the validator reports a submission incomplete if and only if
\* its trimmed form starts with ::: and does not also end with :::.
C16_IncompleteIffUnclosed ==
    fn.valid # "none" =>
        (fn.valid = "Incomplete"
            <=> (StartsWith(Trim(fn.in), Fence) /\ ~EndsWith(Trim(fn.in), Fence)))

\* C16 amended: the validator reports a submission incomplete if and only if
\* its trimmed form starts with ::: and has no closing ::: after those three
\* characters: it is shorter than six characters or does not end with :::.
C16_IncompleteIffNoClosingFence ==
    fn.valid # "none" =>
        (fn.valid = "Incomplete"
            <=> LET t == Trim(fn.in) IN
                StartsWith(t, Fence) /\ (Len(t) < 6 \/ ~EndsWith(t, Fence)))

C16_Witness ==
    /\ fn.pc = "validated" /\ fn.valid = "Incomplete"
    /\ fn.in = <<":", ":", ":", ":", ":">>

\* C17: a submission of the form :::, whitespace, inner text, whitespace, :::
\* is complete for the validator, and handle replaces it by the inner text
\* with the whitespace next to the fences removed.
C17_FenceRewrite ==
    (StartsWith(fn.in, Fence) /\ EndsWith(fn.in, Fence) /\ Len(fn.in) >= 6) =>
        /\ fn.valid \in {"none", "Complete"}
        /\ fn.pc = "unfenced" =>
                fn.line = Trim(SubSeq(fn.in, 4, Len(fn.in) - 3))

\* C18: parse_command returns a command if and only if the first character of
\* the line that is not whitespace is "."; the name is the maximal run of
\* non-whitespace characters from that "."; the argument is the rest of the
\* line from its first to its last non-whitespace character, None when the
\* rest has none.
C18_ParseCommand ==
    fn.pc = "parsed" =>
        LET l == fn.line
            r == fn.parsed
        IN /\ (r # None) <=> (\E i \in 1..Len(l) :
                                l[i] = "." /\ \A j \in 1..(i - 1) : IsWs(l[j]))
           /\ r # None =>
                \E i \in 1..Len(l), e \in 1..Len(l) :
                    /\ i <= e
                    /\ \A j \in 1..(i - 1) : IsWs(l[j])
                    /\ \A j \in i..e : ~IsWs(l[j])
                    /\ e = Len(l) \/ IsWs(l[e + 1])
                    /\ r[1].cmd = SubSeq(l, i, e)
                    /\ LET rest == { j \in (e + 1)..Len(l) : ~IsWs(l[j]) } IN
                       IF rest = {} THEN r[1].args = None
                       ELSE r[1].args =
                              Some(SubSeq(l, CHOOSE a \in rest : \A b \in rest : a <= b,
                                             CHOOSE a \in rest : \A b \in rest : a >= b))

C18_Witness ==
    /\ fn.pc = "parsed" /\ fn.in = <<".", "a", " ", NL, "a", NL>>
    /\ fn.parsed = Some([cmd |-> <<".", "a">>, args |-> Some(<<"a">>)])

\* the ceiling of a / b
Ceil(a, b) == (a + b - 1) \div b

\* C19: for every string and every column count from 1 to 65535, need_rows
\* returns at least 1, and for a non-empty string the ceiling of its display
\* width divided by the columns.
C19_NeedRows ==
    fn.pc \in {"rows", "panicked"} =>
        /\ fn.pc = "rows"
        /\ fn.rows >= 1
        /\ fn.in # <<>> => fn.rows = Ceil(display_width(fn.in), fn.cols)

----------------------------------------------------------------------------
(* Properties of the compression task *)

\* C11: under the single-threaded runtime an ask that waits at the compression
\* barrier eventually passes it, and a compression task that was spawned
\* eventually clears the flag.
C11_BarrierPassed ==
    /\ []((coop /\ rpc = "barrier") => <>(rpc = "client"))
    /\ []((coop /\ rpc = "barrier" /\ compressing) => <>(~compressing))

\* C12 (as stated): the compression task has read the configuration before the
\* network call, holds no lock on it while the call is in flight, and acquires
\* the write lock a single time.
C12_SingleWrite ==
    /\ ctask.pc = "flight" =>
        (ctask.lock = "none" /\ ctask.reads = 2 /\ ctask.writes = 0)
    /\ ctask.writes <= 1

\* C12 (amended): the compression task reads the configuration only before the
\* network call, holds no lock on it while the call is in flight, and writes
\* only after the call: twice in a row when the call succeeded (the summary,
\* then the flag), once when it failed (the flag).
C12_ReadCallWrites ==
    /\ [](ctask.pc = "flight" =>
            (ctask.lock = "none" /\ ctask.reads = 2 /\ ctask.writes = 0))
    /\ [](ctask.pc = "end" => (ctask.lock = "none" /\ ctask.writes <= 1))
    /\ [](ctask.pc = "none" /\ ctask.reads = 2 => ctask.writes \in {1, 2})
    /\ [][ctask'.reads > ctask.reads => ctask.pc = "spawned"]_vars
    /\ [][ctask'.writes > ctask.writes =>
            (ctask.pc \in {"flight", "end"} /\ ctask'.writes = ctask.writes + 1)]_vars

\* a task that has completed after a successful call: two writes
C12_Witness == ctask.pc = "none" /\ ctask.reads = 2 /\ ctask.writes = 2

----------------------------------------------------------------------------
(* Properties of the renderer with its environment, checked under SpecStream *)

\* C13: the spinner cancel is fired before the first chunk is applied, and the
\* spinner task writes nothing to the terminal (no frame, no erase of its line)
\* once the renderer has started applying the first chunk.
C13_SpinnerOnlyInPrelude ==
    /\ applied # <<>> /\ pc \notin {"raw_check", "raw_recv"} /\ enabledRaw
            => ~spinner_tx
    /\ ~spin.late

\* C14: when the channel is closed without Done, gather_events returns an empty
\* batch, and the renderer, markdown_stream or raw_stream, eventually returns
\* even if no abort key is ever pressed.
C14_ClosedChannelReturns ==
    /\ [][(pc = "gather" /\ txDropped /\ chan = <<>> /\ texts = <<>>
           /\ pc' # "gather") => events' = <<>>]_vars
    /\ [](txDropped => <>(pc \in {"returned", "panicked"}))

\* C20 (as stated): when the cursor is reported at column 0 of row 2 and the
\* buffer is exactly as wide as the terminal, the row is decremented and the
\* erase starts at row 0.
C20_EraseFromRowZero ==
    (geom.fix /\ geom.posRow = 2) => geom.eraseRow = 0

\* C20 (amended): when the cursor is reported at column 0 of row 2 and the
\* buffer is exactly as wide as the terminal, the row is decremented to 1 and
\* the erase starts at row 2 - buffer_rows: at row 1, the row that holds the
\* buffer, when the buffer takes one row, and at row 0 only when the rendered
\* buffer takes two rows or more.
C20_EraseFromBufferRow ==
    /\ (geom.fix /\ geom.posRow = 2) => geom.eraseRow = Max(0, 2 - geom.rows)
    /\ (geom.fix /\ geom.posRow = 2 /\ geom.rows = 1) => geom.eraseRow = 1

\* a chunk was applied after a full line on a terminal that wraps eagerly
C20_Witness ==
    /\ geom.fix /\ geom.posRow = 2 /\ geom.rows = 1 /\ eagerWrap
    /\ lastApply = "ok" /\ nSent = 2 /\ spin.pc = "run"

----------------------------------------------------------------------------
(* Properties of the row arithmetic of chunk-apply, checked under Spec *)

\* the row the geometry of the last chunk-apply worked with
GeomRow == geom.posRow - (IF geom.fix THEN 1 ELSE 0)

\* C23: buffer_rows is at least 1 in every state of the renderer, and the row
\* arithmetic of chunk-apply stays within 0..65535: the decrement is made on a
\* row above 0, the target row row + 1 - buffer_rows is computed only when
\* row + 1 >= buffer_rows, and the scroll amount of the other branch is at
\* least 1.
C23_RowArithmetic ==
    /\ buffer_rows >= 1
    /\ geom.rows >= 1
    /\ geom.fix => geom.posRow >= 1
    /\ GeomRow >= 0
    /\ GeomRow + 1 >= geom.rows =>
            (geom.eraseRow = GeomRow + 1 - geom.rows /\ geom.eraseRow \in 0..(U16 - 1))
    /\ GeomRow + 1 < geom.rows =>
            (geom.rows - GeomRow - 1 >= 1 /\ geom.eraseRow = 0)

----------------------------------------------------------------------------
(* Properties of ask, checked under SpecRepl *)

\* C21: the steps of ask run in order and stop at the first failure: an empty
\* input is neither sent nor persisted; the streaming send starts only after
\* the capability check passed; (input, output) is persisted at most once and
\* only after the send returned successfully; when the client initialisation,
\* the capability check or the send fails, nothing is persisted and no
\* compression task is spawned.
C21_AskInOrder ==
    /\ asked.empty => (~asked.sent /\ asked.saved = 0 /\ ~asked.spawned)
    /\ rpc = "send" => (asked.checked /\ asked.sent)
    /\ asked.sent => asked.checked
    /\ asked.saved <= 1
    /\ asked.saved = 1 => (asked.sendOk /\ ~asked.failed)
    /\ rpc = "save" => (asked.sendOk /\ asked.saved = 0)
    /\ asked.failed => (asked.saved = 0 /\ ~asked.spawned)
    /\ asked.spawned => asked.saved = 1

\* an ask whose send failed has returned to the loop with nothing persisted
C21_Witness ==
    /\ rpc = "top" /\ lastErr
    /\ asked.sent /\ asked.failed /\ asked.saved = 0 /\ ~asked.spawned

\* C22: at most one compression task is in flight: a task is spawned only when
\* none is in flight, the flag is set exactly while a task is in flight, and
\* from the barrier on no step of an ask (client, streaming send, save_message)
\* runs while a task is in flight, whether the ask is a user turn, a .role
\* one-shot or a .file ask.
C22_OneCompression ==
    /\ [](compressing <=> ctask.pc # "none")
    /\ [](rpc \in {"client", "send", "save"} => (~compressing /\ ctask.pc = "none"))
    /\ [][(ctask'.pc = "spawned" /\ ctask.pc # "spawned") =>
            (ctask.pc = "none" /\ ~compressing /\ rpc = "save")]_vars

\* a .file ask waits at the barrier while the task of an earlier ask is in flight
C22_Witness ==
    /\ rpc = "sleep" /\ line.cmd = ".file"
    /\ compressing /\ ctask.pc = "flight"

====
